---- MODULE Spec2Model ----
(***************************************************************************)
(* Model of scripts/supabase-mcp-server.py: the tool dispatcher            *)
(* (handle_call_tool), the ten tool handlers of SupabaseMCPServer, the     *)
(* resource reader (handle_read_resource) and the SQL safety classifier    *)
(* (_is_read_only_query).                                                  *)
(*                                                                         *)
(* The backend (the Supabase record client and the psycopg2 direct         *)
(* connection) is the environment: two tables with rows, a call log, and   *)
(* a per-call choice of whether the call raises.                           *)
(*                                                                         *)
(* Strings that the code inspects (SQL text) are sequences of one-letter   *)
(* strings; texts the code only builds are sequences of string pieces.     *)
(* _describe_table is modelled with lines 431-435 inside the `with` block  *)
(* of line 415, which is what their content says (the file as committed    *)
(* has them at mixed indentation).                                         *)
(***************************************************************************)
EXTENDS Integers, Sequences, FiniteSets, TLC

VARIABLES
    supabase,       \* self.supabase is not None (record client initialised)
    db_connection,  \* self.db_connection is not None (direct connection)
    txn,            \* transaction status of the direct connection
    db,             \* backend tables: table name -> sequence of rows
    nextId,         \* backend id generator: table name -> next generated id
    tool,           \* name of the last invoked operation
    args,           \* argument map (or uri) of the last invocation
    resp,           \* outcome of the last invocation
    calls,          \* backend calls issued by the last invocation, in order
    query,          \* input of the last classifier run (SpecClassify)
    classification, \* result of the last classifier run (SpecClassify)
    tasks,          \* handler coroutines on the event loop (SpecSched)
    running,        \* the coroutine that holds the event loop, 0 if none
    trace,          \* backend calls in the order issued, by coroutine
    pc,             \* position of test_database_operations (SpecTest)
    runs,           \* runs of the test started so far; the run's token
    session,        \* the test's connection (conn), its cursor and pending change
    magic_links,    \* committed tokens in the magic_links table
    test_results    \* results recorded by the current run, in order

schedVars == <<tasks, running, trace>>

testVars == <<pc, runs, session, magic_links, test_results>>

vars == <<supabase, db_connection, txn, db, nextId, tool, args, resp, calls,
          query, classification, tasks, running, trace,
          pc, runs, session, magic_links, test_results>>

-----------------------------------------------------------------------------
(* Bounds *)

MaxFrags == 2      \* fragments per query text in SpecClassify
MaxRows == 1       \* rows the backend accepts per table

-----------------------------------------------------------------------------
(* Generic helpers *)

EmptyMap == [k \in {} |-> 0]

One(k, v) == [x \in {k} |-> v]

Has(m, k) == k \in DOMAIN m

\* dict.get(k, d)
Get(m, k, d) == IF k \in DOMAIN m THEN m[k] ELSE d

\* optional entry of an argument map: absent, or one of the values of S
Opt(k, S) == {EmptyMap} \cup {One(k, v) : v \in S}

RECURSIVE Flatten(_)
Flatten(ss) == IF ss = <<>> THEN <<>> ELSE Head(ss) \o Flatten(Tail(ss))

-----------------------------------------------------------------------------
(* SQL text and the classifier (_is_read_only_query, lines 607-626) *)

Whitespace == {" ", "\n"}

Lower == <<"a","b","c","d","e","f","g","h","i","j","k","l","m",
           "n","o","p","q","r","s","t","u","v","w","x","y","z">>
UpperL == <<"A","B","C","D","E","F","G","H","I","J","K","L","M",
            "N","O","P","Q","R","S","T","U","V","W","X","Y","Z">>

\* str.upper() on one letter
UpperChar(c) ==
    IF \E i \in 1..Len(Lower) : Lower[i] = c
    THEN UpperL[CHOOSE i \in 1..Len(Lower) : Lower[i] = c]
    ELSE c

\* str.upper()
Upper(s) == [i \in 1..Len(s) |-> UpperChar(s[i])]

RECURSIVE LStrip(_)
LStrip(s) == IF s # <<>> /\ Head(s) \in Whitespace THEN LStrip(Tail(s)) ELSE s

RECURSIVE RStrip(_)
RStrip(s) ==
    IF s # <<>> /\ s[Len(s)] \in Whitespace
    THEN RStrip(SubSeq(s, 1, Len(s) - 1))
    ELSE s

\* str.strip()
Strip(s) == RStrip(LStrip(s))

\* str.startswith(p)
StartsWith(s, p) == Len(p) <= Len(s) /\ SubSeq(s, 1, Len(p)) = p

\* p in s
Contains(s, p) ==
    \E i \in 0..(Len(s) - Len(p)) : SubSeq(s, i + 1, i + Len(p)) = p

read_only_keywords ==
    << <<"S","E","L","E","C","T">>,
       <<"S","H","O","W">>,
       <<"D","E","S","C","R","I","B","E">>,
       <<"D","E","S","C">>,
       <<"E","X","P","L","A","I","N">>,
       <<"W","I","T","H">> >>

write_keywords ==
    << <<"I","N","S","E","R","T">>,
       <<"U","P","D","A","T","E">>,
       <<"D","E","L","E","T","E">>,
       <<"D","R","O","P">>,
       <<"C","R","E","A","T","E">>,
       <<"A","L","T","E","R">>,
       <<"T","R","U","N","C","A","T","E">>,
       <<"G","R","A","N","T">>,
       <<"R","E","V","O","K","E">> >>

\* variant: the classifier without its final default
is_read_only_query_NoDefault(q) ==
    LET query_upper == Upper(Strip(q)) IN
    \E i \in 1..Len(read_only_keywords) :
        StartsWith(query_upper, read_only_keywords[i])

\* variant: the classifier without its prefix test
is_read_only_query_WriteFirst(q) ==
    LET query_upper == Upper(Strip(q)) IN
    ~ \E i \in 1..Len(write_keywords) : Contains(query_upper, write_keywords[i])

is_read_only_query(q) ==
    LET query_upper == Upper(Strip(q)) IN
    IF \E i \in 1..Len(read_only_keywords) :
           StartsWith(query_upper, read_only_keywords[i])
    THEN TRUE
    ELSE IF \E i \in 1..Len(write_keywords) :
                Contains(query_upper, write_keywords[i])
         THEN FALSE
         ELSE TRUE

\* Query texts are built from these fragments (mixed case on purpose).
Fragments ==
    { <<" ">>, <<"\n">>, <<"x">>, <<";">>,
      <<"V","A","C","U","U","M">>,
      <<"s","e","l","e","c","t">>,
      <<"S","h","o","w">>,
      <<"D","E","S","C","R","I","B","E">>,
      <<"d","e","s","c">>,
      <<"e","x","p","l","a","i","n">>,
      <<"W","I","T","H">>,
      <<"i","n","s","e","r","t">>,
      <<"U","P","D","A","T","E">>,
      <<"D","e","l","e","t","e">>,
      <<"d","r","o","p">>,
      <<"C","R","E","A","T","E">>,
      <<"a","l","t","e","r">>,
      <<"t","r","u","n","c","a","t","e">>,
      <<"G","R","A","N","T">>,
      <<"r","e","v","o","k","e">> }

\* all concatenations of at most n fragments
QueriesOf(n) ==
    UNION { { Flatten(fs) : fs \in [1..k -> Fragments] } : k \in 0..n }

Queries == QueriesOf(MaxFrags)

\* the query texts given to execute_sql: every fragment alone, the empty
\* text, and three longer statements
SqlQueries ==
    {<<>>} \cup Fragments
    \cup { <<"s","e","l","e","c","t"," ","1",";"," ","D","R","O","P"," ","x">>,
           <<" ","d","e","l","e","t","e"," ","x","\n">>,
           <<"s","e","t"," ","u","p","d","a","t","e","d","_","a","t">> }

-----------------------------------------------------------------------------
(* The backend: tables, rows, and the calls handlers make on it.            *)
(* A row is a map column -> value; values are naturals (a boolean column    *)
(* holds 0 or 1, which is what p.get("completed") tests for truth).         *)

Vals == {0, 1}

\* the five tables that _backup_database names (line 711)
DefaultTables ==
    <<"users", "user_progress", "training_items", "quiz_responses", "certificates">>

\* the tables of the deployment, as the fallback of _list_tables lists them
\* (lines 386-394)
FallbackTables ==
    <<"users", "user_progress", "training_items", "quiz_responses", "certificates",
      "security_events", "user_sessions">>

Tables == {FallbackTables[i] : i \in 1..Len(FallbackTables)}

\* information_schema.tables of schema s, ORDER BY table_name
Catalogue(s) ==
    IF s = "public"
    THEN <<"certificates", "quiz_responses", "security_events", "training_items",
           "user_progress", "user_sessions", "users">>
    ELSE <<>>

Schema(t) ==
    CASE t = "users" -> {"id", "role"}
      [] t = "user_progress" -> {"id", "user_id", "completed"}
      [] OTHER -> {"id"}

\* table names a caller passes: two real tables and one that does not exist
TableArgs == {"users", "user_progress", "no_such_table"}

Matches(row, filters) ==
    \A k \in DOMAIN filters : k \in DOMAIN row /\ row[k] = filters[k]

RECURSIVE SelectRows(_, _)
SelectRows(rows, filters) ==
    IF rows = <<>> THEN <<>>
    ELSE IF Matches(Head(rows), filters)
         THEN <<Head(rows)>> \o SelectRows(Tail(rows), filters)
         ELSE SelectRows(Tail(rows), filters)

RECURSIVE RejectRows(_, _)
RejectRows(rows, filters) ==
    IF rows = <<>> THEN <<>>
    ELSE IF Matches(Head(rows), filters)
         THEN RejectRows(Tail(rows), filters)
         ELSE <<Head(rows)>> \o RejectRows(Tail(rows), filters)

\* row with the columns of data overwritten
Overwrite(row, data) ==
    [k \in DOMAIN row \cup DOMAIN data |-> IF k \in DOMAIN data THEN data[k] ELSE row[k]]

UpdateRows(rows, filters, data) ==
    [i \in 1..Len(rows) |->
        IF Matches(rows[i], filters) THEN Overwrite(rows[i], data) ELSE rows[i]]

Project(row, cols) == [k \in (DOMAIN row \cap cols) |-> row[k]]

Take(rows, n) == SubSeq(rows, 1, IF n < Len(rows) THEN n ELSE Len(rows))

\* rows ordered by column c ascending (stable; rows without c last)
Key(row, c) == IF c \in DOMAIN row THEN row[c] ELSE MaxRows + 2

RECURSIVE InsertSorted(_, _, _)
InsertSorted(row, sorted, c) ==
    IF sorted = <<>> THEN <<row>>
    ELSE IF Key(Head(sorted), c) <= Key(row, c)
         THEN <<Head(sorted)>> \o InsertSorted(row, Tail(sorted), c)
         ELSE <<row>> \o sorted

RECURSIVE OrderBy(_, _)
OrderBy(rows, c) ==
    IF rows = <<>> THEN <<>>
    ELSE InsertSorted(rows[Len(rows)], OrderBy(SubSeq(rows, 1, Len(rows) - 1), c), c)

Ids(rows) == {rows[i]["id"] : i \in 1..Len(rows)}

\* messages of the exceptions the backend libraries raise
NetworkError == "connection to backend failed"
NoRelation == "relation does not exist"
NoColumn == "column does not exist"
DuplicateKey == "duplicate key value violates unique constraint"
NoneTypeError == "'NoneType' object has no attribute 'table'"
AbortedError == "current transaction is aborted"
StatementError == "statement failed"

\* str(KeyError(k))
KeyErrorMsg(k) == "'" \o k \o "'"

\* Results of a call on the record client: [ok, err, rows, count, db, nextId]
Bad(e, d, n) ==
    [ok |-> FALSE, err |-> e, rows |-> <<>>, count |-> 0, db |-> d, nextId |-> n]

Good(rs, c, d, n) ==
    [ok |-> TRUE, err |-> "", rows |-> rs, count |-> c, db |-> d, nextId |-> n]

Ordered(rows, c) == IF c = "" THEN rows ELSE OrderBy(rows, c)

\* variant: the limit is not applied
Limited_Ignored(rows, lim) == rows

Limited(rows, lim) == IF lim < 0 THEN rows ELSE Take(rows, lim)

Shown(rows, cols) ==
    IF "*" \in cols THEN rows ELSE [i \in 1..Len(rows) |-> Project(rows[i], cols)]

ClientSelect(q, d, n) ==
    IF ~ (q.columns \subseteq Schema(q.table) \cup {"*"}) THEN Bad(NoColumn, d, n)
    ELSE IF q.order # "" /\ q.order \notin Schema(q.table) THEN Bad(NoColumn, d, n)
    ELSE Good(Shown(Limited(Ordered(SelectRows(d[q.table], q.filters), q.order),
                            q.limit),
                    q.columns),
              Len(SelectRows(d[q.table], q.filters)), d, n)

\* variant: the backend stores the generated id and drops the fields
NewRow_IdOnly(data, id) == One("id", id)

\* the row the backend stores for data: the id is generated unless given
NewRow(data, id) == IF "id" \in DOMAIN data THEN data ELSE Overwrite(data, One("id", id))

ClientInsert(q, d, n) ==
    IF ~ (DOMAIN q.data \subseteq Schema(q.table)) THEN Bad(NoColumn, d, n)
    ELSE IF "id" \in DOMAIN q.data /\ q.data["id"] \in Ids(d[q.table])
    THEN Bad(DuplicateKey, d, n)
    ELSE Good(<<NewRow(q.data, n[q.table])>>, 1,
              [d EXCEPT ![q.table] = Append(d[q.table], NewRow(q.data, n[q.table]))],
              IF "id" \in DOMAIN q.data THEN n
              ELSE [n EXCEPT ![q.table] = n[q.table] + 1])

ClientUpdate(q, d, n) ==
    IF ~ (DOMAIN q.data \subseteq Schema(q.table)) THEN Bad(NoColumn, d, n)
    ELSE IF Cardinality(Ids(UpdateRows(d[q.table], q.filters, q.data))) # Len(d[q.table])
    THEN Bad(DuplicateKey, d, n)
    ELSE Good(UpdateRows(SelectRows(d[q.table], q.filters), q.filters, q.data),
              Len(SelectRows(d[q.table], q.filters)),
              [d EXCEPT ![q.table] = UpdateRows(d[q.table], q.filters, q.data)], n)

ClientDelete(q, d, n) ==
    Good(SelectRows(d[q.table], q.filters), Len(SelectRows(d[q.table], q.filters)),
         [d EXCEPT ![q.table] = RejectRows(d[q.table], q.filters)], n)

\* One call on the record client (self.supabase.table(t)...execute()).
\* q = [op, table, filters, data, columns, order, limit]; limit < 0 means none.
ClientExecute(q, fail, d, n) ==
    IF fail THEN Bad(NetworkError, d, n)
    ELSE IF q.table \notin Tables THEN Bad(NoRelation, d, n)
    ELSE IF ~ (DOMAIN q.filters \subseteq Schema(q.table)) THEN Bad(NoColumn, d, n)
    ELSE IF q.op = "select" THEN ClientSelect(q, d, n)
    ELSE IF q.op = "insert" THEN ClientInsert(q, d, n)
    ELSE IF q.op = "update" THEN ClientUpdate(q, d, n)
    ELSE ClientDelete(q, d, n)

\* query builders of the record client
QSelect(t, f, cols, ord, lim) ==
    [op |-> "select", table |-> t, filters |-> f, data |-> EmptyMap,
     columns |-> cols, order |-> ord, limit |-> lim]

QMutate(o, t, f, dt) ==
    [op |-> o, table |-> t, filters |-> f, data |-> dt,
     columns |-> {"*"}, order |-> "", limit |-> 0 - 1]

\* entry of the call log
Call(conn, q, r) ==
    [conn |-> conn, op |-> q.op, table |-> q.table, filters |-> q.filters,
     limit |-> q.limit, ok |-> r.ok, returned |-> Len(r.rows)]

\* One statement on the direct connection (cur.execute). psycopg2 opens a
\* transaction at the first statement and the server never commits or rolls
\* back, so a failed statement leaves the transaction aborted.
\* Result: [ok, err, txn].
DirectExecute(fail, status) ==
    IF status = "aborted" THEN [ok |-> FALSE, err |-> AbortedError, txn |-> "aborted"]
    ELSE IF fail THEN [ok |-> FALSE, err |-> StatementError, txn |-> "aborted"]
    ELSE [ok |-> TRUE, err |-> "", txn |-> "open"]

DirectCall(stmt, t, r) ==
    [conn |-> "direct", op |-> stmt, table |-> t, filters |-> EmptyMap,
     limit |-> 0 - 1, ok |-> r.ok, returned |-> 0]

-----------------------------------------------------------------------------
(* Handler outcomes.  A handler returns a text (TextContent) or lets an     *)
(* exception escape; either way it reports the backend calls it made and    *)
(* the backend state it leaves.  A JSON text (json.dumps of a result) is    *)
(* kept as the result itself, marked json; any other text is its pieces.    *)

SampleLimit == 5      \* .limit(5), line 451
DefaultLimit == 100   \* args.get("limit", 100), line 464

Returned(text, cs, d, n, x) ==
    [raised |-> FALSE, exc |-> "", json |-> FALSE, text |-> text, payload |-> EmptyMap,
     calls |-> cs, db |-> d, nextId |-> n, txn |-> x]

ReturnedJson(payload, cs, d, n, x) ==
    [raised |-> FALSE, exc |-> "", json |-> TRUE, text |-> <<>>, payload |-> payload,
     calls |-> cs, db |-> d, nextId |-> n, txn |-> x]

Raised(msg, cs, d, n, x) ==
    [raised |-> TRUE, exc |-> msg, json |-> FALSE, text |-> <<>>, payload |-> EmptyMap,
     calls |-> cs, db |-> d, nextId |-> n, txn |-> x]

\* args[k] of an absent key: KeyError(k) leaves the handler before any call
MissingArg(k) == Raised(KeyErrorMsg(k), <<>>, db, nextId, txn)

\* round(num / den * 100, 2), in hundredths
Percent(num, den) == (2 * num * 10000 + den) \div (2 * den)

\* len([p for p in rows if p.get("completed")])
Completed(rows) ==
    Cardinality({i \in 1..Len(rows) :
                    "completed" \in DOMAIN rows[i] /\ rows[i]["completed"] # 0})

-----------------------------------------------------------------------------
(* _list_tables, lines 361-405 *)

\* lines 380-402, r the outcome of cur.execute
ListTablesDirect(schema, r) ==
    IF ~ r.ok
    THEN Returned(<<"Error listing tables: ", r.err>>,
                  <<DirectCall("tables", schema, r)>>, db, nextId, r.txn)
    ELSE ReturnedJson([schema |-> schema, tables |-> Catalogue(schema),
                       count |-> Len(Catalogue(schema))],
                      <<DirectCall("tables", schema, r)>>, db, nextId, r.txn)

ListTables(a, fails) ==
    IF ~ supabase
    THEN Returned(<<"Supabase client not initialized">>, <<>>, db, nextId, txn)
    ELSE IF db_connection
    THEN ListTablesDirect(Get(a, "schema", "public"), DirectExecute(1 \in fails, txn))
    ELSE ReturnedJson([schema |-> Get(a, "schema", "public"),
                       tables |-> FallbackTables, count |-> Len(FallbackTables)],
                      <<>>, db, nextId, txn)

-----------------------------------------------------------------------------
(* _describe_table, lines 407-457 *)

DescribeError(t, e, cs, x) ==
    Returned(<<"Error describing table ", t, ": ", e>>, cs, db, nextId, x)

SampleQuery(t) == QSelect(t, EmptyMap, {"*"}, "", SampleLimit)

\* lines 451-454, r the outcome of the sample select
DescribeSample(t, columns, row_count, cs, r, x) ==
    IF ~ r.ok THEN DescribeError(t, r.err, Append(cs, Call("client", SampleQuery(t), r)), x)
    ELSE ReturnedJson([table_name |-> t, columns |-> columns,
                       row_count |-> row_count, sample_data |-> r.rows],
                      Append(cs, Call("client", SampleQuery(t), r)), db, nextId, x)

\* variant: sample rows for every table that has rows, asked for or not
DescribeResult_Always(t, include_data, columns, row_count, cs, fails, x) ==
    IF row_count > 0 /\ supabase
    THEN DescribeSample(t, columns, row_count, cs,
                        ClientExecute(SampleQuery(t), (Len(cs) + 1) \in fails, db, nextId),
                        x)
    ELSE ReturnedJson([table_name |-> t, columns |-> columns, row_count |-> row_count],
                      cs, db, nextId, x)

\* lines 442-454: the result, with sample rows when asked for and present
DescribeResult(t, include_data, columns, row_count, cs, fails, x) ==
    IF include_data /\ row_count > 0 /\ supabase
    THEN DescribeSample(t, columns, row_count, cs,
                        ClientExecute(SampleQuery(t), (Len(cs) + 1) \in fails, db, nextId),
                        x)
    ELSE ReturnedJson([table_name |-> t, columns |-> columns, row_count |-> row_count],
                      cs, db, nextId, x)

\* lines 430-435, c1 the logged column query, r2 the outcome of the count query
DescribeCount(t, include_data, c1, r2, fails) ==
    IF ~ r2.ok THEN DescribeError(t, r2.err, <<c1, DirectCall("count", t, r2)>>, r2.txn)
    ELSE DescribeResult(t, include_data, Schema(t), Len(db[t]),
                        <<c1, DirectCall("count", t, r2)>>, fails, r2.txn)

\* lines 415-435, r1 the outcome of the column query
DescribeDirect(t, include_data, r1, fails) ==
    IF ~ r1.ok THEN DescribeError(t, r1.err, <<DirectCall("columns", t, r1)>>, r1.txn)
    ELSE DescribeCount(t, include_data, DirectCall("columns", t, r1),
                       DirectExecute(2 \in fails \/ t \notin Tables, r1.txn), fails)

CountQuery(t) == QSelect(t, EmptyMap, {"*"}, "", 1)

\* lines 438-440, r the outcome of the counting select
DescribeClient(t, include_data, r, fails) ==
    IF ~ r.ok THEN DescribeError(t, r.err, <<Call("client", CountQuery(t), r)>>, txn)
    ELSE DescribeResult(t, include_data, {}, r.count,
                        <<Call("client", CountQuery(t), r)>>, fails, txn)

DescribeTable(a, fails) ==
    IF ~ Has(a, "table_name") THEN MissingArg("table_name")
    ELSE IF db_connection
    THEN DescribeDirect(a["table_name"], Get(a, "include_data", FALSE),
                        DirectExecute(1 \in fails, txn), fails)
    ELSE IF ~ supabase THEN DescribeError(a["table_name"], NoneTypeError, <<>>, txn)
    ELSE DescribeClient(a["table_name"], Get(a, "include_data", FALSE),
                        ClientExecute(CountQuery(a["table_name"]), 1 \in fails, db, nextId),
                        fails)

-----------------------------------------------------------------------------
(* _query_table, lines 459-499 *)

\* variant: the backend's message alone, without the handler's prefix
QueryError_Bare(t, e, cs) == Returned(<<e>>, cs, db, nextId, txn)

QueryError(t, e, cs) ==
    Returned(<<"Error querying table ", t, ": ", e>>, cs, db, nextId, txn)

\* lines 471-474: the select list
SelectList(columns) ==
    IF columns # <<>> /\ columns # <<"*">>
    THEN {columns[i] : i \in 1..Len(columns)}
    ELSE {"*"}

\* lines 461-485: the query the handler builds from its arguments
QueryOf(a) ==
    QSelect(a["table_name"], Get(a, "filters", EmptyMap),
            SelectList(Get(a, "columns", <<"*">>)),
            Get(a, "order_by", ""), Get(a, "limit", DefaultLimit))

\* lines 487-499, r the outcome of query.execute()
QueryReply(q, r) ==
    IF ~ r.ok THEN QueryError(q.table, r.err, <<Call("client", q, r)>>)
    ELSE ReturnedJson([table_name |-> q.table, filters |-> q.filters,
                       row_count |-> Len(r.rows), data |-> r.rows],
                      <<Call("client", q, r)>>, db, nextId, txn)

QueryTable(a, fails) ==
    IF ~ Has(a, "table_name") THEN MissingArg("table_name")
    ELSE IF ~ supabase THEN QueryError(a["table_name"], NoneTypeError, <<>>)
    ELSE QueryReply(QueryOf(a), ClientExecute(QueryOf(a), 1 \in fails, db, nextId))

-----------------------------------------------------------------------------
(* _insert_data, _update_data, _delete_data, lines 501-570 *)

\* the calls of an outcome whose first call failed and was repeated
Retried(q, r1, r2) ==
    IF r1.ok THEN [r |-> r1, calls |-> <<Call("client", q, r1)>>]
    ELSE [r |-> r2, calls |-> <<Call("client", q, r1), Call("client", q, r2)>>]

\* variant: a failed mutation call is issued a second time
Mutation_Retry(q, fails) ==
    Retried(q, ClientExecute(q, 1 \in fails, db, nextId),
            ClientExecute(q, 2 \in fails, db, nextId))

Once(q, r) == [r |-> r, calls |-> <<Call("client", q, r)>>]

\* response = query.execute() (lines 507, 533, 559): one call, no retry
Mutation(q, fails) == Once(q, ClientExecute(q, 1 \in fails, db, nextId))

\* len(response.data) (lines 511, 537, 563)
ReportedRows_Requested(r) == 1

ReportedRows(r) == Len(r.rows)

\* lines 507-518, m the outcome of the insert
InsertReply(t, m) ==
    IF ~ m.r.ok
    THEN Returned(<<"Error inserting data into ", t, ": ", m.r.err>>,
                  m.calls, db, nextId, txn)
    ELSE ReturnedJson([table_name |-> t, inserted_rows |-> ReportedRows(m.r),
                       data |-> m.r.rows],
                      m.calls, m.r.db, m.r.nextId, txn)

InsertBody(t, data, fails) ==
    IF ~ supabase
    THEN Returned(<<"Error inserting data into ", t, ": ", NoneTypeError>>,
                  <<>>, db, nextId, txn)
    ELSE InsertReply(t, Mutation(QMutate("insert", t, EmptyMap, data), fails))

InsertData(a, fails) ==
    IF ~ Has(a, "table_name") THEN MissingArg("table_name")
    ELSE IF ~ Has(a, "data") THEN MissingArg("data")
    ELSE InsertBody(a["table_name"], a["data"], fails)

\* lines 533-545, m the outcome of the update
UpdateReply(t, filters, m) ==
    IF ~ m.r.ok
    THEN Returned(<<"Error updating data in ", t, ": ", m.r.err>>,
                  m.calls, db, nextId, txn)
    ELSE ReturnedJson([table_name |-> t, updated_rows |-> ReportedRows(m.r),
                       filters |-> filters, data |-> m.r.rows],
                      m.calls, m.r.db, m.r.nextId, txn)

UpdateBody(t, data, filters, fails) ==
    IF ~ supabase
    THEN Returned(<<"Error updating data in ", t, ": ", NoneTypeError>>,
                  <<>>, db, nextId, txn)
    ELSE UpdateReply(t, filters, Mutation(QMutate("update", t, filters, data), fails))

UpdateData(a, fails) ==
    IF ~ Has(a, "table_name") THEN MissingArg("table_name")
    ELSE IF ~ Has(a, "data") THEN MissingArg("data")
    ELSE IF ~ Has(a, "filters") THEN MissingArg("filters")
    ELSE UpdateBody(a["table_name"], a["data"], a["filters"], fails)

\* lines 559-570, m the outcome of the delete
DeleteReply(t, filters, m) ==
    IF ~ m.r.ok
    THEN Returned(<<"Error deleting data from ", t, ": ", m.r.err>>,
                  m.calls, db, nextId, txn)
    ELSE ReturnedJson([table_name |-> t, deleted_rows |-> ReportedRows(m.r),
                       filters |-> filters],
                      m.calls, m.r.db, m.r.nextId, txn)

DeleteBody(t, filters, fails) ==
    IF ~ supabase
    THEN Returned(<<"Error deleting data from ", t, ": ", NoneTypeError>>,
                  <<>>, db, nextId, txn)
    ELSE DeleteReply(t, filters, Mutation(QMutate("delete", t, filters, EmptyMap), fails))

\* variant: filters read with a default instead of args["filters"]
DeleteData_GetFilters(a, fails) ==
    IF ~ Has(a, "table_name") THEN MissingArg("table_name")
    ELSE DeleteBody(a["table_name"], Get(a, "filters", EmptyMap), fails)

DeleteData(a, fails) ==
    IF ~ Has(a, "table_name") THEN MissingArg("table_name")
    ELSE IF ~ Has(a, "filters") THEN MissingArg("filters")
    ELSE DeleteBody(a["table_name"], a["filters"], fails)

-----------------------------------------------------------------------------
(* _execute_sql, lines 572-605 *)

NeedsConnection == <<"Direct SQL execution requires PostgreSQL connection">>

NeedsAllowWrite ==
    <<"Write operations require explicit confirmation. Set allow_write=true to execute.">>

\* line 583: not allow_write and not self._is_read_only_query(query)
SqlGateRejects_Off(allow_write, q) == FALSE

SqlGateRejects(allow_write, q) == ~ allow_write /\ ~ is_read_only_query(q)

\* lines 586-605, r the outcome of cur.execute.
\* desc: cur.description is set, i.e. the statement produced a result shape.
\* The rows a statement returns are not modelled: fetchall() gives <<>>.
SqlReply(q, r, desc) ==
    IF ~ r.ok
    THEN Returned(<<"Error executing SQL: ", r.err>>,
                  <<DirectCall("execute", "", r)>>, db, nextId, r.txn)
    ELSE IF desc
    THEN ReturnedJson([query |-> q, row_count |-> 0, data |-> <<>>],
                      <<DirectCall("execute", "", r)>>, db, nextId, r.txn)
    ELSE ReturnedJson(
            [query |-> q, message |-> "Query executed successfully (no results returned)"],
            <<DirectCall("execute", "", r)>>, db, nextId, r.txn)

ExecuteSql(a, fails, desc) ==
    IF ~ Has(a, "query") THEN MissingArg("query")
    ELSE IF ~ db_connection THEN Returned(NeedsConnection, <<>>, db, nextId, txn)
    ELSE IF SqlGateRejects(Get(a, "allow_write", FALSE), a["query"])
    THEN Returned(NeedsAllowWrite, <<>>, db, nextId, txn)
    ELSE SqlReply(a["query"], DirectExecute(1 \in fails, txn), desc)

-----------------------------------------------------------------------------
(* _get_user_progress, lines 628-663 *)

ProgressError(e, cs) ==
    Returned(<<"Error getting user progress: ", e>>, cs, db, nextId, txn)

UserQuery(user_id) == QSelect("users", One("id", user_id), {"*"}, "", 0 - 1)

ProgressQuery(user_id) ==
    QSelect("user_progress", One("user_id", user_id), {"*"}, "", 0 - 1)

\* lines 644-649
ProgressResult(user_id, include_details, user, progress) ==
    [user_id |-> user_id, user_info |-> user, progress_entries |-> Len(progress),
     progress |-> IF include_details THEN progress ELSE <<>>]

\* lines 654-658
CompletionStats(progress) ==
    [total_items |-> Len(progress), completed_items |-> Completed(progress),
     completion_percentage |-> Percent(Completed(progress), Len(progress))]

\* variant: the statistics block is always there, with 0 for an empty list
ProgressReply_Always(user_id, include_details, user, c1, r2) ==
    IF ~ r2.ok
    THEN ProgressError(r2.err, <<c1, Call("client", ProgressQuery(user_id), r2)>>)
    ELSE ReturnedJson(ProgressResult(user_id, include_details, user, r2.rows)
                        @@ [completion_stats |->
                              IF r2.rows # <<>> THEN CompletionStats(r2.rows)
                              ELSE [total_items |-> 0, completed_items |-> 0,
                                    completion_percentage |-> 0]],
                      <<c1, Call("client", ProgressQuery(user_id), r2)>>, db, nextId, txn)

\* lines 642-663, c1 the logged user lookup, r2 the outcome of the progress lookup
ProgressReply(user_id, include_details, user, c1, r2) ==
    IF ~ r2.ok
    THEN ProgressError(r2.err, <<c1, Call("client", ProgressQuery(user_id), r2)>>)
    ELSE IF r2.rows # <<>>
    THEN ReturnedJson(ProgressResult(user_id, include_details, user, r2.rows)
                        @@ [completion_stats |-> CompletionStats(r2.rows)],
                      <<c1, Call("client", ProgressQuery(user_id), r2)>>, db, nextId, txn)
    ELSE ReturnedJson(ProgressResult(user_id, include_details, user, r2.rows),
                      <<c1, Call("client", ProgressQuery(user_id), r2)>>, db, nextId, txn)

\* variant: the progress lookup is made whether or not the user exists
UserReply_NoCheck(user_id, include_details, r1, fails) ==
    IF ~ r1.ok THEN ProgressError(r1.err, <<Call("client", UserQuery(user_id), r1)>>)
    ELSE ProgressReply(user_id, include_details,
                       IF r1.rows = <<>> THEN EmptyMap ELSE r1.rows[1],
                       Call("client", UserQuery(user_id), r1),
                       ClientExecute(ProgressQuery(user_id), 2 \in fails, db, nextId))

\* lines 635-642, r1 the outcome of the user lookup
UserReply(user_id, include_details, r1, fails) ==
    IF ~ r1.ok THEN ProgressError(r1.err, <<Call("client", UserQuery(user_id), r1)>>)
    ELSE IF r1.rows = <<>>
    THEN Returned(<<"User ", ToString(user_id), " not found">>,
                  <<Call("client", UserQuery(user_id), r1)>>, db, nextId, txn)
    ELSE ProgressReply(user_id, include_details, r1.rows[1],
                       Call("client", UserQuery(user_id), r1),
                       ClientExecute(ProgressQuery(user_id), 2 \in fails, db, nextId))

GetUserProgress(a, fails) ==
    IF ~ Has(a, "user_id") THEN MissingArg("user_id")
    ELSE IF ~ supabase THEN ProgressError(NoneTypeError, <<>>)
    ELSE UserReply(a["user_id"], Get(a, "include_details", TRUE),
                   ClientExecute(UserQuery(a["user_id"]), 1 \in fails, db, nextId), fails)

-----------------------------------------------------------------------------
(* _get_training_analytics, lines 665-699 *)

AnalyticsError(e, cs) ==
    Returned(<<"Error getting training analytics: ", e>>, cs, db, nextId, txn)

\* variant: the handler deletes the rows it was to read
AllRows_Delete(t) == QMutate("delete", t, EmptyMap, EmptyMap)

AllRows(t) == QSelect(t, EmptyMap, {"*"}, "", 0 - 1)

\* variant: without progress entries the rate is reported as 100
Analytics_Full(total_users, total_progress_entries, completed_entries) ==
    [total_users |-> total_users,
     total_progress_entries |-> total_progress_entries,
     completed_entries |-> completed_entries,
     completion_rate |-> IF total_progress_entries > 0
                         THEN Percent(completed_entries, total_progress_entries)
                         ELSE 10000]

\* lines 682-693
Analytics(total_users, total_progress_entries, completed_entries) ==
    [total_users |-> total_users,
     total_progress_entries |-> total_progress_entries,
     completed_entries |-> completed_entries,
     completion_rate |-> IF total_progress_entries > 0
                         THEN Percent(completed_entries, total_progress_entries)
                         ELSE 0]

\* lines 675-699, r1 and r2 the outcomes of the two selects
AnalyticsReply(date_range, group_by, r1, r2) ==
    IF ~ r1.ok THEN AnalyticsError(r1.err, <<Call("client", AllRows("users"), r1)>>)
    ELSE IF ~ r2.ok
    THEN AnalyticsError(r2.err, <<Call("client", AllRows("users"), r1),
                                  Call("client", AllRows("user_progress"), r2)>>)
    ELSE ReturnedJson(
            [date_range |-> date_range, group_by |-> group_by,
             analytics |-> Analytics(r1.count, Len(r2.rows), Completed(r2.rows))],
            <<Call("client", AllRows("users"), r1),
              Call("client", AllRows("user_progress"), r2)>>,
            db, nextId, txn)

\* variant: a date_range default that is not the declared one
GetTrainingAnalytics_Week(a, fails) ==
    IF ~ supabase THEN AnalyticsError(NoneTypeError, <<>>)
    ELSE AnalyticsReply(Get(a, "date_range", "7d"), Get(a, "group_by", "phase"),
                        ClientExecute(AllRows("users"), 1 \in fails, db, nextId),
                        ClientExecute(AllRows("user_progress"), 2 \in fails, db, nextId))

GetTrainingAnalytics(a, fails) ==
    IF ~ supabase THEN AnalyticsError(NoneTypeError, <<>>)
    ELSE AnalyticsReply(Get(a, "date_range", "30d"), Get(a, "group_by", "phase"),
                        ClientExecute(AllRows("users"), 1 \in fails, db, nextId),
                        ClientExecute(AllRows("user_progress"), 2 \in fails, db, nextId))

-----------------------------------------------------------------------------
(* _backup_database, lines 701-731.  The timestamp of the result is left   *)
(* out.  An entry of backup_data is a row list (ok) or an error string.    *)

\* lines 714-718: the entry of one table, r the outcome of its select
BackupEntry(r) ==
    IF ~ supabase
    THEN [ok |-> FALSE, rows |-> <<>>, err |-> <<"Error backing up table: ", NoneTypeError>>]
    ELSE IF r.ok THEN [ok |-> TRUE, rows |-> r.rows, err |-> <<>>]
    ELSE [ok |-> FALSE, rows |-> <<>>, err |-> <<"Error backing up table: ", r.err>>]

\* backup_data[t] = entry, and the call logged
BackupStep(t, acc, r) ==
    [data |-> [k \in DOMAIN acc.data \cup {t} |->
                 IF k = t THEN BackupEntry(r) ELSE acc.data[k]],
     calls |-> IF supabase THEN Append(acc.calls, Call("client", AllRows(t), r))
               ELSE acc.calls]

\* the for loop of lines 713-718, from table i on; acc = [data, calls]
RECURSIVE BackupLoop(_, _, _, _)
BackupLoop(tables, i, fails, acc) ==
    IF i > Len(tables) THEN acc
    ELSE BackupLoop(tables, i + 1, fails,
                    BackupStep(tables[i], acc,
                               ClientExecute(AllRows(tables[i]),
                                             (Len(acc.calls) + 1) \in fails, db, nextId)))

\* variant: an empty list is taken as it is
BackupTables_AsGiven(given) == given

\* lines 710-711
BackupTables(given) == IF given = <<>> THEN DefaultTables ELSE given

\* variant: one failed table makes the whole backup fail
BackupReply_Abort(format_type, tables, done) ==
    IF \E t \in DOMAIN done.data : ~ done.data[t].ok
    THEN Returned(<<"Error creating backup: ", NetworkError>>, done.calls, db, nextId, txn)
    ELSE ReturnedJson(
            [format |-> format_type, tables_backed_up |-> Len(tables),
             backup_data |-> done.data],
            done.calls, db, nextId, txn)

\* lines 720-728
BackupReply(format_type, tables, done) ==
    ReturnedJson(
        [format |-> format_type,
         tables_backed_up |->
            Cardinality({i \in 1..Len(tables) : done.data[tables[i]].ok}),
         backup_data |-> done.data],
        done.calls, db, nextId, txn)

BackupDatabase(a, fails) ==
    BackupReply(Get(a, "format", "json"), BackupTables(Get(a, "tables", <<>>)),
                BackupLoop(BackupTables(Get(a, "tables", <<>>)), 1, fails,
                           [data |-> EmptyMap, calls |-> <<>>]))

-----------------------------------------------------------------------------
(* handle_call_tool, lines 294-321 *)

ToolNames ==
    {"list_tables", "describe_table", "query_table", "insert_data", "update_data",
     "delete_data", "execute_sql", "get_user_progress", "get_training_analytics",
     "backup_database"}

\* variant: the chain without its backup_database branch
Route_NoBackup(name, a, fails, desc) ==
    CASE name = "list_tables" -> ListTables(a, fails)
      [] name = "describe_table" -> DescribeTable(a, fails)
      [] name = "query_table" -> QueryTable(a, fails)
      [] name = "insert_data" -> InsertData(a, fails)
      [] name = "update_data" -> UpdateData(a, fails)
      [] name = "delete_data" -> DeleteData(a, fails)
      [] name = "execute_sql" -> ExecuteSql(a, fails, desc)
      [] name = "get_user_progress" -> GetUserProgress(a, fails)
      [] name = "get_training_analytics" -> GetTrainingAnalytics(a, fails)
      [] OTHER -> Returned(<<"Unknown tool: ", name>>, <<>>, db, nextId, txn)

\* the if/elif chain of lines 297-318
Route(name, a, fails, desc) ==
    CASE name = "list_tables" -> ListTables(a, fails)
      [] name = "describe_table" -> DescribeTable(a, fails)
      [] name = "query_table" -> QueryTable(a, fails)
      [] name = "insert_data" -> InsertData(a, fails)
      [] name = "update_data" -> UpdateData(a, fails)
      [] name = "delete_data" -> DeleteData(a, fails)
      [] name = "execute_sql" -> ExecuteSql(a, fails, desc)
      [] name = "get_user_progress" -> GetUserProgress(a, fails)
      [] name = "get_training_analytics" -> GetTrainingAnalytics(a, fails)
      [] name = "backup_database" -> BackupDatabase(a, fails)
      [] OTHER -> Returned(<<"Unknown tool: ", name>>, <<>>, db, nextId, txn)

\* the route with an unknown name raising instead of answering
RouteRaising(name, a, fails, desc) ==
    IF name \in ToolNames THEN Route(name, a, fails, desc)
    ELSE Raised("Unknown tool: " \o name, <<>>, db, nextId, txn)

\* lines 319-321: except Exception as e
Catch(h) ==
    IF h.raised THEN Returned(<<"Error: ", h.exc>>, h.calls, h.db, h.nextId, h.txn)
    ELSE h

\* variant: the dispatcher without its except clause
handle_call_tool_NoCatch(name, a, fails, desc) == Route(name, a, fails, desc)

\* variant: an unknown name raises inside the try block
handle_call_tool_UnknownRaises(name, a, fails, desc) ==
    Catch(RouteRaising(name, a, fails, desc))

handle_call_tool(name, a, fails, desc) == Catch(Route(name, a, fails, desc))

-----------------------------------------------------------------------------
(* handle_read_resource and the resource implementations, lines 349-358    *)
(* and 733-756.  The handlers they call return a text and never raise, so  *)
(* the except branches of the resource implementations are not reachable.  *)

ResourceUris == {"supabase://schema", "supabase://tables", "supabase://analytics"}

get_schema_resource(fails) == ListTables(One("schema", "public"), fails)

get_tables_resource(fails) == ListTables(One("schema", "public"), fails)

get_analytics_resource(fails) == GetTrainingAnalytics(One("date_range", "30d"), fails)

\* variant: an unknown URI answered with a text instead of a raise
handle_read_resource_Soft(uri, fails) ==
    CASE uri = "supabase://schema" -> get_schema_resource(fails)
      [] uri = "supabase://tables" -> get_tables_resource(fails)
      [] uri = "supabase://analytics" -> get_analytics_resource(fails)
      [] OTHER -> Returned(<<"Unknown resource: ", uri>>, <<>>, db, nextId, txn)

handle_read_resource(uri, fails) ==
    CASE uri = "supabase://schema" -> get_schema_resource(fails)
      [] uri = "supabase://tables" -> get_tables_resource(fails)
      [] uri = "supabase://analytics" -> get_analytics_resource(fails)
      [] OTHER -> Raised("Unknown resource: " \o uri, <<>>, db, nextId, txn)

-----------------------------------------------------------------------------
(* handle_list_tools, lines 91-292: the "required" list of each tool *)

RequiredArgs(name) ==
    CASE name = "describe_table" -> <<"table_name">>
      [] name = "query_table" -> <<"table_name">>
      [] name = "insert_data" -> <<"table_name", "data">>
      [] name = "update_data" -> <<"table_name", "data", "filters">>
      [] name = "delete_data" -> <<"table_name", "filters">>
      [] name = "execute_sql" -> <<"query">>
      [] name = "get_user_progress" -> <<"user_id">>
      [] OTHER -> <<>>

\* the catalogue handle_list_tools returns, in order: the name of each tool,
\* the properties of its inputSchema, their declared defaults, its required list
ToolSpecs ==
    << [name |-> "list_tables", properties |-> {"schema"},
        defaults |-> [schema |-> "public"], required |-> <<>>],
       [name |-> "describe_table", properties |-> {"table_name", "include_data"},
        defaults |-> [include_data |-> FALSE], required |-> <<"table_name">>],
       [name |-> "query_table",
        properties |-> {"table_name", "columns", "filters", "limit", "order_by"},
        defaults |-> [limit |-> 100], required |-> <<"table_name">>],
       [name |-> "insert_data", properties |-> {"table_name", "data"},
        defaults |-> EmptyMap, required |-> <<"table_name", "data">>],
       [name |-> "update_data", properties |-> {"table_name", "data", "filters"},
        defaults |-> EmptyMap, required |-> <<"table_name", "data", "filters">>],
       [name |-> "delete_data", properties |-> {"table_name", "filters"},
        defaults |-> EmptyMap, required |-> <<"table_name", "filters">>],
       [name |-> "execute_sql", properties |-> {"query", "params"},
        defaults |-> EmptyMap, required |-> <<"query">>],
       [name |-> "get_user_progress", properties |-> {"user_id", "include_details"},
        defaults |-> [include_details |-> TRUE], required |-> <<"user_id">>],
       [name |-> "get_training_analytics", properties |-> {"date_range", "group_by"},
        defaults |-> [date_range |-> "30d", group_by |-> "phase"], required |-> <<>>],
       [name |-> "backup_database", properties |-> {"tables", "format"},
        defaults |-> [format |-> "json"], required |-> <<>>] >>

CatalogueNames == {ToolSpecs[i].name : i \in 1..Len(ToolSpecs)}

-----------------------------------------------------------------------------
(* Inputs: the argument maps callers send *)

Filters ==
    {EmptyMap, One("nosuch", 0)} \cup {One(c, v) : c \in {"id", "completed"}, v \in Vals}

InsertDatas ==
    {One("role", 1), One("nosuch", 0), [user_id |-> 2, completed |-> 0]}
    \cup {[user_id |-> 1, completed |-> c] : c \in Vals}

UpdateDatas == {One("completed", 1), One("role", 0)}

UserIds == {0, 1, 2}

TableLists ==
    {<<"users">>, <<"users", "no_such_table">>, <<"no_such_table", "user_progress">>,
     <<"user_progress", "user_progress">>}

ListArgs == Opt("schema", {"public", "private"})

DescribeArgs ==
    {t @@ i : t \in Opt("table_name", TableArgs), i \in Opt("include_data", BOOLEAN)}

QueryArgs ==
    {t @@ f @@ l : t \in Opt("table_name", TableArgs), f \in Opt("filters", Filters),
                   l \in Opt("limit", {0, 1})}
    \cup {One("table_name", t) @@ c @@ o :
            t \in TableArgs,
            c \in Opt("columns", {<<>>, <<"id">>}),
            o \in Opt("order_by", {"id"})}

InsertArgs ==
    {t @@ d : t \in Opt("table_name", TableArgs), d \in Opt("data", InsertDatas)}

UpdateArgs ==
    {t @@ d @@ f : t \in Opt("table_name", TableArgs), d \in Opt("data", UpdateDatas),
                   f \in Opt("filters", Filters)}

DeleteArgs ==
    {t @@ f : t \in Opt("table_name", TableArgs), f \in Opt("filters", Filters)}

SqlArgs ==
    {q @@ w : q \in Opt("query", SqlQueries), w \in Opt("allow_write", BOOLEAN)}

ProgressArgs ==
    {u @@ i : u \in Opt("user_id", UserIds), i \in Opt("include_details", BOOLEAN)}

AnalyticsArgs ==
    {r @@ g : r \in Opt("date_range", {"30d", "7d"}), g \in Opt("group_by", {"phase", "user"})}

BackupArgs ==
    {t @@ f : t \in Opt("tables", TableLists \cup {<<>>}), f \in Opt("format", {"json", "csv"})}

UnknownNames == {"", "drop_table", "LIST_TABLES"}

UnknownUris == {"", "supabase://users"}

\* which backend calls of an invocation raise: any subset of the first k
FailSets(k) == SUBSET (1..k)

-----------------------------------------------------------------------------
(* The state machine *)

NoResp == [raised |-> FALSE, json |-> FALSE, text |-> <<>>, payload |-> EmptyMap]

NoConn == [status |-> "none", cursor |-> "none", pending |-> "none"]

\* no run of the test script's database test has begun
TestNotStarted ==
    /\ pc = "idle"
    /\ runs = 0
    /\ session = NoConn
    /\ magic_links = {}
    /\ test_results = <<>>

Init ==
    /\ supabase \in BOOLEAN
    /\ db_connection \in BOOLEAN
    /\ db_connection => supabase          \* lines 67-80
    /\ txn = "idle"
    /\ db = [t \in Tables |-> <<>>]
    /\ nextId = [t \in Tables |-> 1]
    /\ tool = "none"
    /\ args = EmptyMap
    /\ resp = NoResp
    /\ calls = <<>>
    /\ query = <<>>
    /\ classification = "none"
    /\ tasks = <<>>
    /\ running = 0
    /\ trace = <<>>
    /\ TestNotStarted

\* the effect of one invocation with outcome h
Finish(name, a, h) ==
    /\ tool' = name
    /\ args' = a
    /\ resp' = [raised |-> h.raised, json |-> h.json,
                text |-> IF h.raised THEN <<h.exc>> ELSE h.text,
                payload |-> h.payload]
    /\ calls' = h.calls
    /\ db' = h.db
    /\ nextId' = h.nextId
    /\ txn' = h.txn
    /\ UNCHANGED <<supabase, db_connection, query, classification>>
    /\ UNCHANGED <<schedVars, testVars>>

\* The server handles one request at a time (run, lines 758-768): a request
\* is taken only when the previous response has been delivered.
Idle == tool = "none"

Invoke(name, a, fails, desc) == Finish(name, a, handle_call_tool(name, a, fails, desc))

CallListTables ==
    /\ Idle
    /\ \E a \in ListArgs, fails \in FailSets(1) : Invoke("list_tables", a, fails, FALSE)

CallDescribeTable ==
    /\ Idle
    /\ \E a \in DescribeArgs, fails \in FailSets(3) : Invoke("describe_table", a, fails, FALSE)

CallQueryTable ==
    /\ Idle
    /\ \E a \in QueryArgs, fails \in FailSets(1) : Invoke("query_table", a, fails, FALSE)

\* the backend accepts MaxRows rows per table (ids 1..MaxRows)
CallInsertData ==
    /\ Idle
    /\ \E a \in InsertArgs, fails \in FailSets(1) :
        /\ (Has(a, "table_name") /\ a["table_name"] \in Tables) =>
              nextId[a["table_name"]] <= MaxRows
        /\ Invoke("insert_data", a, fails, FALSE)

CallUpdateData ==
    /\ Idle
    /\ \E a \in UpdateArgs, fails \in FailSets(1) : Invoke("update_data", a, fails, FALSE)

CallDeleteData ==
    /\ Idle
    /\ \E a \in DeleteArgs, fails \in FailSets(1) : Invoke("delete_data", a, fails, FALSE)

CallExecuteSql ==
    /\ Idle
    /\ \E a \in SqlArgs, fails \in FailSets(1), desc \in BOOLEAN :
        Invoke("execute_sql", a, fails, desc)

CallGetUserProgress ==
    /\ Idle
    /\ \E a \in ProgressArgs, fails \in FailSets(2) :
        Invoke("get_user_progress", a, fails, FALSE)

CallGetTrainingAnalytics ==
    /\ Idle
    /\ \E a \in AnalyticsArgs, fails \in FailSets(2) :
        Invoke("get_training_analytics", a, fails, FALSE)

CallBackupDatabase ==
    /\ Idle
    /\ \E a \in BackupArgs, fails \in FailSets(Len(DefaultTables)) :
        Invoke("backup_database", a, fails, FALSE)

CallUnknownTool ==
    /\ Idle
    /\ \E name \in UnknownNames, a \in ListArgs : Invoke(name, a, {}, FALSE)

ReadResource ==
    /\ Idle
    /\ \E uri \in ResourceUris \cup UnknownUris, fails \in FailSets(2) :
        Finish("read_resource", One("uri", uri), handle_read_resource(uri, fails))

\* the response is delivered and the request is discarded
Deliver ==
    /\ ~ Idle
    /\ tool' = "none"
    /\ args' = EmptyMap
    /\ resp' = NoResp
    /\ calls' = <<>>
    /\ UNCHANGED <<supabase, db_connection, txn, db, nextId, query, classification>>
    /\ UNCHANGED <<schedVars, testVars>>

Next ==
    \/ CallListTables
    \/ CallDescribeTable
    \/ CallQueryTable
    \/ CallInsertData
    \/ CallUpdateData
    \/ CallDeleteData
    \/ CallExecuteSql
    \/ CallGetUserProgress
    \/ CallGetTrainingAnalytics
    \/ CallBackupDatabase
    \/ CallUnknownTool
    \/ ReadResource
    \/ Deliver

Spec == Init /\ [][Next]_vars

-----------------------------------------------------------------------------
(* The classifier on its own: every query text is classified once *)

InitClassify ==
    /\ supabase = FALSE
    /\ db_connection = FALSE
    /\ txn = "idle"
    /\ db = [t \in Tables |-> <<>>]
    /\ nextId = [t \in Tables |-> 1]
    /\ tool = "none"
    /\ args = EmptyMap
    /\ resp = NoResp
    /\ calls = <<>>
    /\ query \in Queries
    /\ classification = "none"
    /\ tasks = <<>>
    /\ running = 0
    /\ trace = <<>>
    /\ TestNotStarted

Classify ==
    /\ Idle
    /\ classification = "none"
    /\ classification' = IF is_read_only_query(query) THEN "ReadOnly" ELSE "Mutating"
    /\ UNCHANGED <<supabase, db_connection, txn, db, nextId, tool, args, resp, calls,
                   query>>
    /\ UNCHANGED <<schedVars, testVars>>

NextClassify == Classify

SpecClassify == InitClassify /\ [][NextClassify]_vars

-----------------------------------------------------------------------------
(* Scheduling, lines 294-321 and 758-782.  asyncio.run gives the server one *)
(* thread and one event loop; each request is a coroutine on that loop,     *)
(* and a coroutine gives the loop back only at an await that suspends.      *)
(* handle_call_tool awaits its handler, and a handler calls the backend     *)
(* with blocking calls (query.execute(), cur.execute) and awaits nothing.   *)

MaxTasks == 3

\* the tools whose coroutines are followed: one, two and several backend calls
SchedTools == {"query_table", "get_user_progress", "backup_database"}

\* the backend calls of a handler on its longest path
MaxCalls(name) ==
    CASE name = "describe_table" -> 3
      [] name \in {"get_user_progress", "get_training_analytics"} -> 2
      [] name = "backup_database" -> Len(DefaultTables)
      [] OTHER -> 1

\* variant: the handler awaits something that suspends after each backend call
Suspends_Await(name, k) == k < MaxCalls(name)

\* does the handler of tool name give the loop back after its k-th backend
\* call: no handler has an await between or after its backend calls
Suspends(name, k) == FALSE

InitSched ==
    /\ supabase = TRUE
    /\ db_connection = FALSE
    /\ txn = "idle"
    /\ db = [t \in Tables |-> <<>>]
    /\ nextId = [t \in Tables |-> 1]
    /\ tool = "none"
    /\ args = EmptyMap
    /\ resp = NoResp
    /\ calls = <<>>
    /\ query = <<>>
    /\ classification = "none"
    /\ tasks = <<>>
    /\ running = 0
    /\ trace = <<>>
    /\ TestNotStarted

handlerVars == <<supabase, db_connection, txn, db, nextId, tool, args, resp, calls,
                 query, classification>>

\* a request arrives and its coroutine is created (at any time: the client
\* does not wait for the loop)
Accept ==
    /\ Len(tasks) < MaxTasks
    /\ \E name \in SchedTools :
          tasks' = Append(tasks, [tool |-> name, made |-> 0, status |-> "ready"])
    /\ UNCHANGED <<running, trace>>
    /\ UNCHANGED <<handlerVars, testVars>>

\* the loop is free and runs a coroutine that is ready
Resume ==
    /\ running = 0
    /\ \E i \in 1..Len(tasks) :
          /\ tasks[i].status = "ready"
          /\ running' = i
          /\ tasks' = [tasks EXCEPT ![i].status = "running"]
    /\ UNCHANGED trace
    /\ UNCHANGED <<handlerVars, testVars>>

\* the running coroutine issues its next backend call, a blocking call
BackendCall ==
    /\ running # 0
    /\ tasks[running].made < MaxCalls(tasks[running].tool)
    /\ trace' = Append(trace, running)
    /\ IF Suspends(tasks[running].tool, tasks[running].made + 1)
       THEN /\ tasks' = [tasks EXCEPT ![running].made = @ + 1,
                                      ![running].status = "ready"]
            /\ running' = 0
       ELSE /\ tasks' = [tasks EXCEPT ![running].made = @ + 1]
            /\ running' = running
    /\ UNCHANGED <<handlerVars, testVars>>

\* the running coroutine returns its response
Return ==
    /\ running # 0
    /\ tasks[running].made = MaxCalls(tasks[running].tool)
    /\ tasks' = [tasks EXCEPT ![running].status = "done"]
    /\ running' = 0
    /\ UNCHANGED trace
    /\ UNCHANGED <<handlerVars, testVars>>

NextSched == Accept \/ Resume \/ BackendCall \/ Return

SpecSched == InitSched /\ [][NextSched]_vars


-----------------------------------------------------------------------------
(* The test script's database test: MagicLoginTester.test_database_operations.
   Each run of the script opens its own connection to the same database, so
   the committed rows of magic_links outlive a run. *)

MaxRuns == 4

\* the run's token is fresh: 32 random characters
Token == runs

Recorded(name, passed) == [name |-> name, passed |-> passed]

\* conn.commit(): the pending change of the transaction reaches the table
Commit(links, pending, token) ==
    CASE pending = "insert" -> links \cup {token}
      [] pending = "delete" -> links \ {token}
      [] OTHER -> links

\* SELECT COUNT(*) FROM magic_links WHERE token = %s, as the connection sees it
CountLinks(links, pending, token) ==
    Cardinality({k \in Commit(links, pending, token) : k = token})

InitTest ==
    /\ supabase = FALSE
    /\ db_connection = FALSE
    /\ txn = "idle"
    /\ db = [t \in Tables |-> <<>>]
    /\ nextId = [t \in Tables |-> 1]
    /\ tool = "none"
    /\ args = EmptyMap
    /\ resp = NoResp
    /\ calls = <<>>
    /\ query = <<>>
    /\ classification = "none"
    /\ tasks = <<>>
    /\ running = 0
    /\ trace = <<>>
    /\ TestNotStarted

\* conn = self.connect_db(); cursor = conn.cursor()
TestConnect ==
    /\ pc = "idle"
    /\ runs < MaxRuns
    /\ runs' = runs + 1
    /\ session' = [status |-> "open", cursor |-> "open", pending |-> "none"]
    /\ test_results' = <<>>
    /\ pc' = "insert"
    /\ UNCHANGED <<magic_links, handlerVars, schedVars>>

\* cursor.execute(INSERT ... RETURNING id); cursor.fetchone()
TestInsert ==
    /\ pc = "insert"
    /\ \E ok \in BOOLEAN :
         IF ok
         THEN /\ session' = [session EXCEPT !.pending = "insert"]
              /\ pc' = "commit_insert"
         ELSE /\ session' = session
              /\ pc' = "except"
    /\ UNCHANGED <<runs, magic_links, test_results, handlerVars, schedVars>>

\* conn.commit(); record_test("Create magic link in DB", True, ...)
TestCommitInsert ==
    /\ pc = "commit_insert"
    /\ magic_links' = Commit(magic_links, session.pending, Token)
    /\ session' = [session EXCEPT !.pending = "none"]
    /\ test_results' = Append(test_results, Recorded("Create magic link in DB", TRUE))
    /\ pc' = "select"
    /\ UNCHANGED <<runs, handlerVars, schedVars>>

\* cursor.execute(SELECT COUNT(*) ...); count == 1 decides the recorded result
TestSelect ==
    /\ pc = "select"
    /\ \E ok \in BOOLEAN :
         IF ok
         THEN /\ test_results' =
                    Append(test_results,
                           Recorded("Verify magic link exists",
                                    CountLinks(magic_links, session.pending, Token) = 1))
              /\ pc' = "delete"
         ELSE /\ test_results' = test_results
              /\ pc' = "except"
    /\ UNCHANGED <<runs, session, magic_links, handlerVars, schedVars>>

\* cursor.execute(DELETE FROM magic_links WHERE token = %s)
TestDelete ==
    /\ pc = "delete"
    /\ \E ok \in BOOLEAN :
         IF ok
         THEN /\ session' = [session EXCEPT !.pending = "delete"]
              /\ pc' = "commit_delete"
         ELSE /\ session' = session
              /\ pc' = "except"
    /\ UNCHANGED <<runs, magic_links, test_results, handlerVars, schedVars>>

\* conn.commit() after the delete
TestCommitDelete ==
    /\ pc = "commit_delete"
    /\ magic_links' = Commit(magic_links, session.pending, Token)
    /\ session' = [session EXCEPT !.pending = "none"]
    /\ pc' = "finally"
    /\ UNCHANGED <<runs, test_results, handlerVars, schedVars>>

\* except Exception: record_test("Database operations", False); conn.rollback()
TestExcept ==
    /\ pc = "except"
    /\ test_results' = Append(test_results, Recorded("Database operations", FALSE))
    /\ session' = [session EXCEPT !.pending = "none"]
    /\ pc' = "finally"
    /\ UNCHANGED <<runs, magic_links, handlerVars, schedVars>>

\* finally: cursor.close(); conn.close()
TestFinally ==
    /\ pc = "finally"
    /\ session' = [session EXCEPT !.cursor = "closed", !.status = "closed"]
    /\ pc' = "idle"
    /\ UNCHANGED <<runs, magic_links, test_results, handlerVars, schedVars>>

NextTest ==
    \/ TestConnect
    \/ TestInsert
    \/ TestCommitInsert
    \/ TestSelect
    \/ TestDelete
    \/ TestCommitDelete
    \/ TestExcept
    \/ TestFinally

SpecTest == InitTest /\ [][NextTest]_vars

-----------------------------------------------------------------------------
(* Properties *)

\* the last step was a tool invocation through the dispatcher
ToolCalled == tool \notin {"none", "read_resource"}

\* the required arguments of the invoked tool that the caller left out
Missing == {i \in 1..Len(RequiredArgs(tool)) : ~ Has(args, RequiredArgs(tool)[i])}

FirstMissing == RequiredArgs(tool)[CHOOSE i \in Missing : \A j \in Missing : i <= j]

\* the trimmed, upper-cased text starts with a whitelisted prefix
HasReadPrefix(q) ==
    \E i \in 1..Len(read_only_keywords) : StartsWith(Upper(Strip(q)), read_only_keywords[i])

\* the trimmed, upper-cased text has a mutating keyword somewhere
HasWriteKeyword(q) ==
    \E i \in 1..Len(write_keywords) : Contains(Upper(Strip(q)), write_keywords[i])

\* the heads of the texts that report a failure
ErrorHeads ==
    {"Error: ", "Error listing tables: ", "Error describing table ",
     "Error querying table ", "Error inserting data into ", "Error updating data in ",
     "Error deleting data from ", "Error executing SQL: ",
     "Error getting user progress: ", "Error getting training analytics: ",
     "Error creating backup: "}

Failure == ~ resp.raised /\ ~ resp.json /\ resp.text # <<>> /\ resp.text[1] \in ErrorHeads

\* the override flag of an execute_sql invocation
AllowWrite == Get(args, "allow_write", FALSE)

\* C1 as stated: execute_sql issues a statement only if allow_write is true or
\* the query is classified ReadOnly, and a Mutating query without allow_write
\* always gets the 'Write operations require explicit confirmation' message as
\* a normal response with zero backend calls.
C1_GateAsStated ==
    (tool = "execute_sql" /\ Has(args, "query")) =>
        /\ calls # <<>> => (AllowWrite \/ is_read_only_query(args["query"]))
        /\ (~ AllowWrite /\ ~ is_read_only_query(args["query"])) =>
              (~ resp.raised /\ resp.text = NeedsAllowWrite /\ calls = <<>>)

\* C1 (amended): execute_sql issues a statement on the direct connection only
\* if allow_write is true or the query is classified ReadOnly; a Mutating query
\* without allow_write gets a normal response and zero backend calls: the
\* 'Write operations require explicit confirmation' message when the direct
\* connection exists, the 'Direct SQL execution requires PostgreSQL
\* connection' message when it does not.
C1_SqlGate ==
    (tool = "execute_sql" /\ Has(args, "query")) =>
        /\ calls # <<>> => (AllowWrite \/ is_read_only_query(args["query"]))
        /\ (~ AllowWrite /\ ~ is_read_only_query(args["query"])) =>
              /\ ~ resp.raised
              /\ ~ resp.json
              /\ calls = <<>>
              /\ resp.text = IF db_connection THEN NeedsAllowWrite ELSE NeedsConnection

\* a Mutating query without allow_write is rejected on a live connection
C1_Witness ==
    /\ tool = "execute_sql"
    /\ db_connection
    /\ Has(args, "query")
    /\ HasWriteKeyword(args["query"])
    /\ ~ HasReadPrefix(args["query"])
    /\ ~ AllowWrite
    /\ resp.text = NeedsAllowWrite
    /\ calls = <<>>

\* C2 as stated: a query is classified ReadOnly if and only if its trimmed,
\* upper-cased form starts with a whitelisted prefix.
C2_PrefixIffAsStated ==
    classification # "none" =>
        (classification = "ReadOnly" <=> HasReadPrefix(query))

\* C2 (amended): a query is classified ReadOnly if and only if its trimmed,
\* upper-cased form starts with a whitelisted prefix (whatever follows the
\* prefix) or contains none of the mutating keywords.
C2_PrefixOrNoKeyword ==
    classification # "none" =>
        (classification = "ReadOnly" <=> (HasReadPrefix(query) \/ ~ HasWriteKeyword(query)))

\* a query with a whitelisted prefix and a mutating keyword after it is ReadOnly
C2_Witness ==
    /\ classification = "ReadOnly"
    /\ HasReadPrefix(query)
    /\ HasWriteKeyword(query)

\* C3: the classifier follows the algorithm: (a) a whitelisted prefix gives
\* ReadOnly even with a mutating keyword later; (b) without the prefix, a
\* mutating keyword anywhere as a substring, also inside an identifier, gives
\* Mutating; (c) without either, ReadOnly.
C3_Algorithm ==
    classification # "none" =>
        /\ HasReadPrefix(query) => classification = "ReadOnly"
        /\ (~ HasReadPrefix(query) /\ HasWriteKeyword(query)) => classification = "Mutating"
        /\ (~ HasReadPrefix(query) /\ ~ HasWriteKeyword(query)) => classification = "ReadOnly"

\* a keyword inside an identifier ("xdrop") makes the query Mutating
C3_Witness ==
    /\ classification = "Mutating"
    /\ Upper(Strip(query)) = <<"X", "D", "R", "O", "P">>

\* C4: update_data and delete_data with an empty filters map fail before any
\* backend call: the response is a failure and the backend receives no call.
C4_EmptyFiltersRejected ==
    (tool \in {"update_data", "delete_data"} /\ Has(args, "filters")
        /\ DOMAIN args["filters"] = {}) =>
        (Failure /\ calls = <<>>)

\* C5: a tool invoked without one of its required arguments answers with a
\* failure and makes no backend call.
C5_MissingRequired ==
    (ToolCalled /\ Missing # {}) =>
        /\ Failure
        /\ resp.text[1] = "Error: "
        /\ calls = <<>>

\* delete_data without filters on an initialised client
C5_Witness ==
    /\ tool = "delete_data"
    /\ supabase
    /\ Has(args, "table_name")
    /\ ~ Has(args, "filters")
    /\ resp.text = <<"Error: ", "'filters'">>
    /\ calls = <<>>

\* C6: the dispatcher always returns a response, whatever the tool, the
\* arguments and the backend do; the exception that escapes a handler (the
\* KeyError of the first required argument it reads and does not find) comes
\* back as the text 'Error: ' followed by the exception's message.
C6_NoEscape ==
    ToolCalled =>
        /\ ~ resp.raised
        /\ Missing # {} => resp.text = <<"Error: ", KeyErrorMsg(FirstMissing)>>
        /\ (resp.text # <<>> /\ resp.text[1] = "Error: ") => Missing # {}

\* a backend call raised in the middle of a handler and a response came back
C6_Witness ==
    /\ tool = "get_user_progress"
    /\ Len(calls) = 2
    /\ ~ calls[2].ok
    /\ ~ resp.raised
    /\ resp.text = <<"Error getting user progress: ", NetworkError>>

\* C7: a name that is not a registered tool gets the response 'Unknown tool:
\* <name>' through the normal channel, and no backend call is made.
C7_UnknownTool ==
    (ToolCalled /\ tool \notin ToolNames) =>
        /\ ~ resp.raised
        /\ ~ resp.json
        /\ resp.text = <<"Unknown tool: ", tool>>
        /\ calls = <<>>

C7_Witness ==
    /\ tool = "drop_table"
    /\ resp.text = <<"Unknown tool: ", "drop_table">>

\* C8: reading a resource other than the three listed ones raises 'Unknown
\* resource: <uri>' and reaches no handler, and nothing else ever raises.
C8_UnknownResource ==
    /\ (tool = "read_resource" /\ args["uri"] \notin ResourceUris) =>
          /\ resp.raised
          /\ resp.text = <<"Unknown resource: " \o args["uri"]>>
          /\ calls = <<>>
    /\ resp.raised => (tool = "read_resource" /\ args["uri"] \notin ResourceUris)

C8_Witness ==
    /\ tool = "read_resource"
    /\ args["uri"] = "supabase://users"
    /\ resp.raised

\* C9: insert_data, update_data and delete_data make at most one backend call,
\* a mutation of their own kind on the record client; exactly one when the
\* arguments are complete and the client is initialised; a failed call is
\* reported and not repeated.
C9_OneMutation ==
    tool \in {"insert_data", "update_data", "delete_data"} =>
        /\ Len(calls) <= 1
        /\ (Missing = {} /\ supabase) <=> Len(calls) = 1
        /\ \A i \in 1..Len(calls) :
              /\ calls[i].conn = "client"
              /\ calls[i].op = (CASE tool = "insert_data" -> "insert"
                                  [] tool = "update_data" -> "update"
                                  [] OTHER -> "delete")
              /\ ~ calls[i].ok => Failure

\* the backend call of an update failed and was not repeated
C9_Witness ==
    /\ tool = "update_data"
    /\ Len(calls) = 1
    /\ ~ calls[1].ok
    /\ Failure

\* C10: the row count a mutation handler reports is the number of rows the
\* backend returned for the operation.
C10_ReportedRows ==
    /\ (tool = "insert_data" /\ resp.json) => resp.payload.inserted_rows = calls[1].returned
    /\ (tool = "update_data" /\ resp.json) => resp.payload.updated_rows = calls[1].returned
    /\ (tool = "delete_data" /\ resp.json) => resp.payload.deleted_rows = calls[1].returned

\* a delete whose filter matches no row succeeds and reports 0
C10_Witness ==
    /\ tool = "delete_data"
    /\ resp.json
    /\ args["filters"] # EmptyMap
    /\ calls[1].returned = 0
    /\ resp.payload.deleted_rows = 0

\* the table list a backup_database invocation works on
BackupList == BackupTables(Get(args, "tables", <<>>))

\* the positions of BackupList that hold the last occurrence of their table
LastOf == {i \in 1..Len(BackupList) :
              \A j \in (i + 1)..Len(BackupList) : BackupList[j] # BackupList[i]}

C12_ListTablesFallback ==
    (tool = "list_tables" /\ ~ db_connection) =>
        /\ ~ resp.raised
        /\ resp.json
        /\ resp.payload.tables = FallbackTables
        /\ resp.payload.count = Len(FallbackTables)

\* the tools that need the record client or the direct connection
BackendTools == ToolNames \ {"list_tables"}

\* C13: when the record client was never initialised, each tool other than
\* list_tables, invoked with its required arguments, reports a 'client not
\* initialized' failure, without crashing and without any backend call.
C13_ClientNotInitialized ==
    (tool \in BackendTools /\ ~ supabase /\ Missing = {}) =>
        /\ ~ resp.raised
        /\ ~ resp.json
        /\ \E i \in 1..Len(resp.text) : resp.text[i] = "Supabase client not initialized"
        /\ calls = <<>>

\* the head of the text a handler's own except clause returns
HandlerErrorHead ==
    CASE tool = "list_tables" -> "Error listing tables: "
      [] tool = "describe_table" -> "Error describing table "
      [] tool = "query_table" -> "Error querying table "
      [] tool = "insert_data" -> "Error inserting data into "
      [] tool = "update_data" -> "Error updating data in "
      [] tool = "delete_data" -> "Error deleting data from "
      [] tool = "execute_sql" -> "Error executing SQL: "
      [] tool = "get_user_progress" -> "Error getting user progress: "
      [] tool = "get_training_analytics" -> "Error getting training analytics: "
      [] tool = "backup_database" -> "Error creating backup: "
      [] OTHER -> "Error: "

\* a plain text the code returns instead of a JSON document
PlainShape ==
    \/ Len(resp.text) = 2 /\ resp.text[1] = "Error: "
    \/ Len(resp.text) \in {2, 4} /\ resp.text[1] = HandlerErrorHead /\ tool \in ToolNames
    \/ tool = "list_tables" /\ resp.text = <<"Supabase client not initialized">>
    \/ tool = "execute_sql" /\ resp.text \in {NeedsConnection, NeedsAllowWrite}
    \/ /\ tool = "get_user_progress"
       /\ Len(resp.text) = 3
       /\ resp.text[1] = "User "
       /\ resp.text[3] = " not found"
    \/ tool \notin ToolNames /\ resp.text = <<"Unknown tool: ", tool>>

\* C14 as stated: the text of every response is a JSON document or a string
\* of the form 'Error: <message>'.
C14_TwoShapesAsStated ==
    ToolCalled =>
        \/ resp.json
        \/ resp.text # <<>> /\ resp.text[1] = "Error: "

\* C14 (amended): the text of every response is either a JSON document or a
\* plain message, and a plain message has one of these forms: 'Error:
\* <message>' from the dispatcher, the handler's own 'Error <doing what>:
\* <message>', 'Supabase client not initialized', 'Direct SQL execution
\* requires PostgreSQL connection', the 'Write operations require explicit
\* confirmation' message, 'User <id> not found', 'Unknown tool: <name>'.
C14_Shapes ==
    ToolCalled =>
        /\ ~ resp.raised
        /\ resp.json => (resp.text = <<>> /\ DOMAIN resp.payload # {})
        /\ ~ resp.json => (resp.payload = EmptyMap /\ PlainShape)

\* a backend error reported by the handler itself, not as 'Error: <message>'
C14_Witness ==
    /\ tool = "query_table"
    /\ Len(calls) = 1
    /\ ~ calls[1].ok
    /\ resp.text = <<"Error querying table ", "users", ": ", NetworkError>>

\* C15: query_table without a limit asks the backend for at most 100 rows;
\* with limit 0 it returns a successful result with an empty data list and
\* row_count 0; for every limit n >= 0 the reported row_count is at most n.
C15_QueryLimit ==
    (tool = "query_table" /\ Has(args, "table_name") /\ supabase) =>
        /\ Len(calls) = 1
        /\ calls[1].limit = (IF Has(args, "limit") THEN args["limit"] ELSE 100)
        /\ resp.json <=> calls[1].ok
        /\ resp.json =>
              /\ resp.payload.row_count = Len(resp.payload.data)
              /\ resp.payload.row_count <= calls[1].limit
              /\ Get(args, "limit", 100) = 0 =>
                    (resp.payload.data = <<>> /\ resp.payload.row_count = 0)

\* limit 0 on a table that has a row: success with no data
C15_Witness ==
    /\ tool = "query_table"
    /\ Has(args, "table_name")
    /\ Has(args, "limit")
    /\ ~ Has(args, "filters")
    /\ args["limit"] = 0
    /\ args["table_name"] \in Tables
    /\ db[args["table_name"]] # <<>>
    /\ resp.json
    /\ resp.payload.row_count = 0

\* query_table on table t with an equality filter on id, no backend failure
ReadBack(t, id) ==
    handle_call_tool("query_table", [table_name |-> t, filters |-> One("id", id)],
                     {}, FALSE)

\* the reply back is exactly one row that carries the fields of data
OneRowWith(back, data) ==
    /\ back.json
    /\ back.payload.row_count = 1
    /\ Len(back.payload.data) = 1
    /\ \A k \in DOMAIN data :
          k \in DOMAIN back.payload.data[1] /\ back.payload.data[1][k] = data[k]

\* C16: round trip: once insert_data has succeeded, query_table on the same
\* table with an equality filter on the generated id returns exactly one row,
\* and the row carries the inserted field values; a query_table with an id
\* filter returns the rows of the table that have this id, at most one.
C16_RoundTrip ==
    /\ (tool = "insert_data" /\ resp.json) =>
          /\ Len(resp.payload.data) = 1
          /\ "id" \in DOMAIN resp.payload.data[1]
          /\ OneRowWith(ReadBack(args["table_name"], resp.payload.data[1]["id"]),
                        args["data"])
    /\ (tool = "query_table" /\ resp.json /\ Has(args, "filters")
          /\ DOMAIN args["filters"] = {"id"} /\ DOMAIN args = {"table_name", "filters"}) =>
          /\ resp.payload.row_count <= 1
          /\ resp.payload.row_count =
                Cardinality({i \in 1..Len(db[args["table_name"]]) :
                                db[args["table_name"]][i]["id"] = args["filters"]["id"]})
          /\ \A i \in 1..Len(resp.payload.data) :
                \E j \in 1..Len(db[args["table_name"]]) :
                    resp.payload.data[i] = db[args["table_name"]][j]

\* a row inserted earlier is read back through its generated id
C16_Witness ==
    /\ tool = "query_table"
    /\ resp.json
    /\ args = [table_name |-> "user_progress", filters |-> One("id", 1)]
    /\ resp.payload.row_count = 1
    /\ resp.payload.data = <<[id |-> 1, user_id |-> 1, completed |-> 1]>>
    /\ nextId["user_progress"] = 2

\* C17: a successful get_user_progress reports the number of progress
\* entries the backend returned; the completion_stats block is present if and
\* only if there is at least one entry, so the percentage is computed with a
\* total above 0 only, and a user without entries gets progress_entries = 0
\* and no completion_stats.
C17_CompletionStats ==
    (tool = "get_user_progress" /\ resp.json) =>
        /\ Len(calls) = 2
        /\ resp.payload.progress_entries = calls[2].returned
        /\ "completion_stats" \in DOMAIN resp.payload <=> resp.payload.progress_entries > 0
        /\ "completion_stats" \in DOMAIN resp.payload =>
              /\ resp.payload.completion_stats.total_items = resp.payload.progress_entries
              /\ resp.payload.completion_stats.completed_items
                    <= resp.payload.completion_stats.total_items
              /\ resp.payload.completion_stats.completion_percentage
                    = (resp.payload.completion_stats.completed_items * 10000)
                        \div resp.payload.completion_stats.total_items

\* an existing user without progress entries, next to another user's entry
C17_Witness ==
    /\ tool = "get_user_progress"
    /\ resp.json
    /\ args["user_id"] = 1
    /\ db["user_progress"] # <<>>
    /\ resp.payload.progress_entries = 0
    /\ "completion_stats" \notin DOMAIN resp.payload

\* C18: the catalogue of handle_list_tools holds each tool name once, and the
\* names in the catalogue are the names the dispatcher routes to a handler:
\* an invocation is answered 'Unknown tool' exactly when its name is not in
\* the catalogue.
C18_RegistryAgreement ==
    /\ \A i, j \in 1..Len(ToolSpecs) : ToolSpecs[i].name = ToolSpecs[j].name => i = j
    /\ CatalogueNames = ToolNames
    /\ ToolCalled =>
          (tool \in CatalogueNames <=> resp.text # <<"Unknown tool: ", tool>>)

\* the last tool of the catalogue was dispatched to its handler
C18_Witness ==
    /\ tool = ToolSpecs[Len(ToolSpecs)].name
    /\ resp.json
    /\ "backup_data" \in DOMAIN resp.payload

\* the argument maps and the failure patterns tried for a catalogued tool
ArgsOf(name) ==
    CASE name = "list_tables" -> ListArgs
      [] name = "describe_table" -> DescribeArgs
      [] name = "query_table" -> QueryArgs
      [] name = "insert_data" -> InsertArgs
      [] name = "update_data" -> UpdateArgs
      [] name = "delete_data" -> DeleteArgs
      [] name = "execute_sql" -> SqlArgs
      [] name = "get_user_progress" -> ProgressArgs
      [] name = "get_training_analytics" -> AnalyticsArgs
      [] OTHER -> BackupArgs

FailsOf(name) ==
    CASE name = "describe_table" -> FailSets(3)
      [] name \in {"get_user_progress", "get_training_analytics"} -> FailSets(2)
      [] name = "backup_database" -> FailSets(Len(DefaultTables))
      [] OTHER -> FailSets(1)

\* invoking tool s without parameter p and with p at its declared default
\* gives the same outcome: response, backend calls and backend state
SameAsDefault(s, p) ==
    \A a \in ArgsOf(s.name), fails \in FailsOf(s.name) :
        ~ Has(a, p) =>
            handle_call_tool(s.name, a, fails, FALSE)
                = handle_call_tool(s.name, a @@ One(p, s.defaults[p]), fails, FALSE)

\* C19: for every optional parameter with a default declared in the
\* catalogue, invoking the tool without the parameter produces the same
\* backend calls and the same response as invoking it with the declared
\* default value, in every state in which the server takes a request.
C19_DeclaredDefaults ==
    Idle =>
        \A i \in 1..Len(ToolSpecs) :
            \A p \in DOMAIN ToolSpecs[i].defaults : SameAsDefault(ToolSpecs[i], p)

\* get_training_analytics invoked without arguments answered with both defaults
C19_Witness ==
    /\ tool = "get_training_analytics"
    /\ args = EmptyMap
    /\ resp.json
    /\ resp.payload.date_range = ToolSpecs[9].defaults["date_range"]
    /\ resp.payload.group_by = ToolSpecs[9].defaults["group_by"]
    /\ resp.payload.analytics.total_users > 0

\* what the tool behind resource uri returns when invoked directly
DerivedFrom(uri, fails) ==
    IF uri = "supabase://analytics"
    THEN handle_call_tool("get_training_analytics", One("date_range", "30d"), fails, FALSE)
    ELSE handle_call_tool("list_tables", One("schema", "public"), fails, FALSE)

\* the response and the backend calls of the step are those of outcome h
Shows(h) ==
    /\ resp' = [raised |-> h.raised, json |-> h.json, text |-> h.text, payload |-> h.payload]
    /\ calls' = h.calls

\* C20: every read of supabase://schema or supabase://tables returns what
\* list_tables({schema: 'public'}) returns on the backend state of that
\* moment, every read of supabase://analytics what
\* get_training_analytics({date_range: '30d'}) returns, and a resource read
\* changes nothing of the server's state: client, connection and its
\* transaction, backend tables.
C20_ResourcesDerived ==
    [][(tool' = "read_resource" /\ args'["uri"] \in ResourceUris) =>
          /\ \E fails \in FailSets(2) : Shows(DerivedFrom(args'["uri"], fails))
          /\ UNCHANGED <<supabase, db_connection, txn, db, nextId>>]_vars

\* C21: invocations never interleave: the backend calls of one invocation
\* are consecutive in the order of all backend calls, and an invocation that
\* has made a backend call and has not returned is the one that is running,
\* whatever requests arrive meanwhile.
C21_NoInterleaving ==
    /\ \A i, j, k \in 1..Len(trace) :
          (i < j /\ j < k /\ trace[i] = trace[k]) => trace[j] = trace[i]
    /\ \A t \in 1..Len(tasks) :
          (tasks[t].made > 0 /\ tasks[t].status # "done") => running = t
    /\ \A t \in 1..Len(tasks) :
          tasks[t].status = "done" => tasks[t].made = MaxCalls(tasks[t].tool)

\* between the user lookup and the progress lookup of get_user_progress,
\* with an earlier backup finished and another request waiting
C21_Witness ==
    /\ Len(tasks) = 3
    /\ running # 0
    /\ tasks[running].tool = "get_user_progress"
    /\ tasks[running].made = 1
    /\ \E t \in 1..Len(tasks) : tasks[t].status = "ready"
    /\ \E t \in 1..Len(tasks) :
          tasks[t].status = "done" /\ tasks[t].tool = "backup_database"

\* the tables a backup_database invocation has to visit, as the claim has it
ListedTables ==
    IF Has(args, "tables") /\ args["tables"] # <<>> THEN args["tables"]
    ELSE <<"users", "user_progress", "training_items", "quiz_responses", "certificates">>

C23_TablesBackedUp ==
    (tool = "backup_database" /\ resp.json) =>
        resp.payload.tables_backed_up =
            Cardinality({t \in DOMAIN resp.payload.backup_data :
                            resp.payload.backup_data[t].ok})

\* the users table has a row with this id
UserExists(id) == \E i \in 1..Len(db["users"]) : db["users"][i]["id"] = id

\* C24: get_user_progress for a user_id that matches no row of users, when
\* the user lookup itself succeeds, returns 'User <id> not found' as a normal
\* response after exactly one backend call, the user lookup; the message is
\* returned in no other case.
C24_UserNotFound ==
    (tool = "get_user_progress" /\ Has(args, "user_id") /\ supabase) =>
        /\ Len(calls) >= 1
        /\ calls[1].table = "users"
        /\ (calls[1].ok /\ ~ UserExists(args["user_id"])) =>
              /\ ~ resp.raised
              /\ ~ resp.json
              /\ resp.text = <<"User ", ToString(args["user_id"]), " not found">>
              /\ Len(calls) = 1
        /\ (resp.text # <<>> /\ resp.text[1] = "User ") =>
              (calls[1].ok /\ ~ UserExists(args["user_id"]))

\* another user exists and has a progress entry, the one asked for does not
C24_Witness ==
    /\ tool = "get_user_progress"
    /\ Has(args, "user_id")
    /\ args["user_id"] = 2
    /\ UserExists(1)
    /\ db["user_progress"] # <<>>
    /\ db["user_progress"][1]["user_id"] = 2
    /\ resp.text = <<"User ", "2", " not found">>
    /\ Len(calls) = 1

\* C25: in a result of get_training_analytics, total_progress_entries is
\* the number of progress rows the backend returned, completed_entries lies
\* between 0 and total_progress_entries, and completion_rate (in hundredths
\* of a percent) is 0 without progress entries and otherwise the rounded
\* quotient completed_entries / total_progress_entries, between 0 and 100.
C25_CompletionRate ==
    (tool = "get_training_analytics" /\ resp.json) =>
        /\ Len(calls) = 2
        /\ resp.payload.analytics.total_progress_entries = calls[2].returned
        /\ resp.payload.analytics.completed_entries >= 0
        /\ resp.payload.analytics.completed_entries
              <= resp.payload.analytics.total_progress_entries
        /\ resp.payload.analytics.completion_rate >= 0
        /\ resp.payload.analytics.completion_rate <= 10000
        /\ resp.payload.analytics.total_progress_entries = 0 =>
              resp.payload.analytics.completion_rate = 0
        /\ resp.payload.analytics.total_progress_entries > 0 =>
              /\ 2 * (resp.payload.analytics.completion_rate
                         * resp.payload.analytics.total_progress_entries
                       - resp.payload.analytics.completed_entries * 10000)
                    <= resp.payload.analytics.total_progress_entries
              /\ 2 * (resp.payload.analytics.completed_entries * 10000
                       - resp.payload.analytics.completion_rate
                           * resp.payload.analytics.total_progress_entries)
                    <= resp.payload.analytics.total_progress_entries

\* users exist and no progress entry does: the rate is 0, nothing is divided
C25_Witness ==
    /\ tool = "get_training_analytics"
    /\ resp.json
    /\ resp.payload.date_range = "7d"
    /\ resp.payload.analytics.total_users = 1
    /\ resp.payload.analytics.total_progress_entries = 0
    /\ resp.payload.analytics.completion_rate = 0

\* the backend calls of the last invocation that ask for sample rows
SampleCalls == {i \in 1..Len(calls) : calls[i].conn = "client" /\ calls[i].limit = 5}

\* C26: a result of describe_table has a sample_data field exactly when
\* include_data is true and row_count > 0; the sample rows come from one
\* select limited to 5 rows, issued last, and are at most 5; when
\* include_data is false or absent, or the table is empty, no sample-row
\* call is issued.
C26_SampleRows ==
    (tool = "describe_table" /\ Has(args, "table_name")) =>
        /\ resp.json =>
              /\ "sample_data" \in DOMAIN resp.payload <=>
                    (Get(args, "include_data", FALSE) /\ resp.payload.row_count > 0)
              /\ "sample_data" \in DOMAIN resp.payload =>
                    /\ SampleCalls = {Len(calls)}
                    /\ Len(resp.payload.sample_data) <= 5
                    /\ Len(resp.payload.sample_data) <= resp.payload.row_count
              /\ "sample_data" \notin DOMAIN resp.payload => SampleCalls = {}
        /\ ~ Get(args, "include_data", FALSE) => SampleCalls = {}
        /\ Cardinality(SampleCalls) <= 1

\* include_data on a table with a row: the row is in sample_data
C26_Witness ==
    /\ tool = "describe_table"
    /\ resp.json
    /\ args = [table_name |-> "users", include_data |-> TRUE]
    /\ resp.payload.row_count = 1
    /\ "sample_data" \in DOMAIN resp.payload
    /\ resp.payload.sample_data = db["users"]
    /\ db_connection

\* the last invocation was refused by the connection because of an earlier
\* failed statement
RefusedAsAborted ==
    /\ ~ resp.json
    /\ \E i \in 1..Len(resp.text) : resp.text[i] = AbortedError

\* C27: statements on the shared direct connection are independent: when a
\* handler has returned, no transaction is open on the connection, a failed
\* statement leaves the connection usable, and no list_tables,
\* describe_table or execute_sql fails because an earlier statement failed.
C27_StatementsIndependent ==
    /\ txn = "idle"
    /\ ~ RefusedAsAborted

\* the operations that read: six tools and the resource reads
ReadOnlyOps ==
    {"list_tables", "describe_table", "query_table", "get_user_progress",
     "get_training_analytics", "backup_database", "read_resource"}

\* C28: read-only tools never mutate: every backend call of list_tables,
\* describe_table, query_table, get_user_progress, get_training_analytics,
\* backup_database and of a resource read is a select or an introspection
\* statement, and the step leaves the backend tables and the id generator
\* as they were.
C28_ReadOnlyTools ==
    [][tool' \in ReadOnlyOps =>
          /\ \A i \in 1..Len(calls') :
                calls'[i].op \in {"select", "tables", "columns", "count"}
          /\ db' = db
          /\ nextId' = nextId]_vars

\* a query that selected a stored row and left it in place
C28_Witness ==
    /\ tool = "query_table"
    /\ resp.json
    /\ Has(args, "columns")
    /\ Has(args, "order_by")
    /\ resp.payload.row_count = 1
    /\ Len(db[args["table_name"]]) = 1
    /\ calls[1].op = "select"

\* the keys each handler takes from its argument map, by args[k] or args.get(k)
ReadArgs(name) ==
    CASE name = "list_tables" -> {"schema"}
      [] name = "describe_table" -> {"table_name", "include_data"}
      [] name = "query_table" ->
             {"table_name", "columns", "filters", "limit", "order_by"}
      [] name = "insert_data" -> {"table_name", "data"}
      [] name = "update_data" -> {"table_name", "data", "filters"}
      [] name = "delete_data" -> {"table_name", "filters"}
      [] name = "execute_sql" -> {"query", "params", "allow_write"}
      [] name = "get_user_progress" -> {"user_id", "include_details"}
      [] name = "get_training_analytics" -> {"date_range", "group_by"}
      [] name = "backup_database" -> {"tables", "format"}
      [] OTHER -> {}

\* C29: every argument a handler reads is declared in the input schema the
\* catalogue publishes for its tool, the write override of execute_sql
\* included: whichever tool has been invoked with its required arguments,
\* the keys its handler took from the arguments are among the properties the
\* catalogue lists for it.
C29_ArgsDeclared ==
    \A i \in 1..Len(ToolSpecs) :
        /\ tool = ToolSpecs[i].name
        /\ \A j \in 1..Len(ToolSpecs[i].required) :
              Has(args, ToolSpecs[i].required[j])
        => ReadArgs(tool) \subseteq ToolSpecs[i].properties

\* C30: once a run of the database test has finished, its cursor and its
\* connection are closed, no change is left uncommitted, and the magic_links
\* row the run inserted is gone, whichever statement failed.
C30_ScaffoldCleanup ==
    pc = "idle" /\ runs > 0 =>
        /\ session.cursor = "closed"
        /\ session.status = "closed"
        /\ session.pending = "none"
        /\ Token \notin magic_links

====
